---- MODULE Spec2Model ----
(***************************************************************************)
(* A model of SerMidi (src/main.py): the serial <-> virtual MIDI bridge.   *)
(*                                                                         *)
(* Threads of the program and how they appear here:                        *)
(*   - the supervisor: Serial2Midi.run, one action per statement group,    *)
(*     its position in pc;                                                 *)
(*   - the signal handler (main, line 263), which runs stop() between two  *)
(*     bytecodes of the main thread: SignalStop;                           *)
(*   - one reader thread per opened handle (serial_set_callback.worker),   *)
(*     its position in rd[h];                                              *)
(*   - the rtmidi dispatch thread that calls the callback registered with  *)
(*     midi_in.set_callback (process_midi_out), its position in out_pc.    *)
(* List mode (main, line 247: listDevices) is the specification ListSpec.  *)
(***************************************************************************)
EXTENDS Integers, Sequences, FiniteSets, TLC

\* ------------------------------------------------------------------ bounds
MaxStops == 1      \* signals delivered to the process
MaxFrames == 2     \* 3-byte results returned by serial read(3)
MaxMsgs  == 1      \* messages delivered on the virtual input port
MaxConn  == 2      \* serial handles opened in one run
MaxFails == 2      \* failed opens in one call of open_serial
MaxPorts == 2      \* ports comports() lists in one pass

\* ------------------------------------------------------- Python values
\* A Python value of the kinds a port descriptor holds: None, int, str
\* (a str is its sequence of characters).
None == [t |-> "none", i |-> 0, s |-> <<>>]
PyInt(n) == [t |-> "int", i |-> n, s |-> <<>>]
PyStr(cs) == [t |-> "str", i |-> 0, s |-> cs]

\* bool(v): None, 0 and "" are falsy.
Truthy(v) ==
  CASE v.t = "none" -> FALSE
    [] v.t = "int" -> v.i # 0
    [] OTHER -> v.s # <<>>

\* a in b for two strs: a is a substring of b.
IsSubstr(a, b) ==
  \E k \in 0..(Len(b) - Len(a)) : SubSeq(b, k + 1, k + Len(a)) = a

\* ------------------------------------------------------------ dotdict
\* dotdict.__getattr__ = dict.get: an absent key reads as None.
dotdict_getattr(d, name) == IF name \in DOMAIN d THEN d[name] ELSE None

\* dict.__getitem__ (d["name"]): an absent key raises KeyError.
dict_getitem(d, name) ==
  IF name \in DOMAIN d THEN [raised |-> FALSE, v |-> d[name]]
  ELSE [raised |-> TRUE, v |-> None]

\* A field reference of a match expression: d.name or d["name"].
Lookup(d, ref) ==
  IF ref.how = "attr" THEN [raised |-> FALSE, v |-> dotdict_getattr(d, ref.name)]
  ELSE dict_getitem(d, ref.name)

\* ----------------------------------------------------------- predicates
\* eval_match is a Python expression over the local d; it is modelled by
\* its syntax tree: one operator applied to a field reference and a constant.
\*   eq: d.f == c     ne: d.f != c     in: c in d.f     lt: d.f < c
\*   truthy: d.f      not: not d.f     bad: an expression that raises
\*   (NameError, SyntaxError) whatever d is
NoMatch == [op |-> "none", ref |-> [how |-> "attr", name |-> ""], c |-> None]
Pred(op, how, name, c) == [op |-> op, ref |-> [how |-> how, name |-> name], c |-> c]

\* eval(eval_match) followed by the truth test of `if not ...`:
\* "true", "false", or "raise" when the evaluation raises.
PyEval(e, d) ==
  LET r == Lookup(d, e.ref)
      v == r.v
      B(b) == IF b THEN "true" ELSE "false"
  IN  IF e.op = "bad" \/ r.raised THEN "raise"
      ELSE CASE e.op = "eq" -> B(v = e.c)
             [] e.op = "ne" -> B(v # e.c)
             [] e.op = "in" ->
                  IF v.t = "str" /\ e.c.t = "str" THEN B(IsSubstr(e.c.s, v.s))
                  ELSE "raise"                      \* TypeError
             [] e.op = "lt" ->
                  IF v.t = "int" /\ e.c.t = "int" THEN B(v.i < e.c.i)
                  ELSE "raise"                      \* TypeError
             [] e.op = "truthy" -> B(Truthy(v))
             [] e.op = "not" -> B(~Truthy(v))
             [] OTHER -> "raise"

\* --------------------------------------------------------- findDevices
\* inspect(p): the descriptor built from one ListPortInfo.
inspect(p) ==
  [device_path |-> p.device, usb_description |-> p.product, usb_vid |-> p.vid,
   usb_pid |-> p.pid, usb_manufacturer |-> p.manufacturer]

\* Lines 209-215: a descriptor is yielded unless a predicate is given and
\* its evaluation is falsy or raises.
Yielded(em, d) == em = NoMatch \/ PyEval(em, d) = "true"

\* The permutations of 1..n, as sequences.
Perms(n) == {f \in [1..n -> 1..n] : \A a, b \in 1..n : a # b => f[a] # f[b]}

\* findDevices(eval_match) when comports() returns ps and the inspect tasks
\* complete in the order ord: asyncio.as_completed keeps its tasks in a set,
\* so the completion order is some permutation of the enumeration order.
findDevices(em, ps, ord) ==
  LET ds == [k \in 1..Len(ps) |-> inspect(ps[ord[k]])]
      Keep(d) == Yielded(em, d)
  IN  SelectSeq(ds, Keep)

\* ------------------------------------------------------------ universe
\* The ListPortInfo objects comports() may return: a board with every USB
\* field set, an adapter with no product/manufacturer string, and an
\* on-board port with no USB fields at all.
PortA == [device |-> PyStr(<<"/", "U">>), product |-> PyStr(<<"A", "r", "d">>),
          vid |-> PyInt(2), pid |-> PyInt(0), manufacturer |-> PyStr(<<"A", "r">>)]
PortB == [device |-> PyStr(<<"/", "A">>), product |-> None,
          vid |-> PyInt(1), pid |-> PyInt(1), manufacturer |-> None]
PortC == [device |-> PyStr(<<"/", "S">>), product |-> None,
          vid |-> None, pid |-> None, manufacturer |-> None]
Attached == {PortA, PortB, PortC}

\* What comports() may return: the attached ports, without repetition.
PortLists ==
  UNION {{ps \in [1..n -> Attached] : \A a, b \in 1..n : a # b => ps[a] # ps[b]}
         : n \in 0..MaxPorts}

\* The --match expressions of run mode and of list mode.
RunPreds == {NoMatch, Pred("eq", "attr", "usb_vid", PyInt(2))}
ListPreds ==
  RunPreds \cup
  {Pred("eq", "attr", "usb_manufacturer", PyStr(<<"A", "r">>)),
   Pred("ne", "attr", "usb_vid", PyInt(2)),
   Pred("in", "attr", "usb_description", PyStr(<<"r", "d">>)),
   Pred("lt", "attr", "usb_pid", PyInt(1)),
   Pred("truthy", "attr", "usb_pid", None),
   Pred("not", "attr", "usb_manufacturer", None),
   Pred("eq", "attr", "serial_number", None),
   Pred("ne", "attr", "serial_number", PyStr(<<"A">>)),
   Pred("not", "attr", "location", None),
   Pred("in", "attr", "serial_number", PyStr(<<"A">>)),
   Pred("eq", "item", "serial_number", None),
   Pred("eq", "item", "usb_vid", PyInt(1)),
   Pred("bad", "attr", "usb_vid", None)}

\* --serial: absent, or a device path.
ManualDevices == {None, PyStr(<<"/", "M">>)}

\* What serial read(3) may return: nothing (timeout), a partial frame, a frame.
ReadResults == {<<>>, <<64>>, <<144, 60>>, <<144, 60, 64>>, <<128, 60, 0>>}

\* The messages rtmidi may deliver on the virtual input port.
Msgs == {<<>>, <<248>>, <<192, 5>>, <<144, 60, 64>>, <<240, 1, 2, 247>>}

Handles == 1..MaxConn

\* --------------------------------------------------------------- state
VARIABLES
  manual_device,  \* self.manual_device
  eval_match,     \* self.eval_match (NoMatch: no --match)
  pc,             \* the supervisor's position in run (or in list mode)
  should_stop,    \* self.should_stop
  _interrupt,     \* self._interrupt: 0 (None) or the handle whose Event's set it is
  interruptSet,   \* the threading.Event objects of run that are set, by handle
  device_path,    \* run's local device_path
  ports,          \* findDevices' local ports
  devices,        \* run's local devices (list mode: the descriptors printed)
  ser,            \* run's local ser: 0 (None or unassigned) or a handle
  nHandles,       \* serial.Serial objects created so far
  closes,         \* per handle, the number of close() calls on it
  midi_in,        \* virtual input port: "new", "open", "closed"
  midi_out,       \* virtual output port
  vopens,         \* open_virtual_port() calls on each virtual port
  vcloses,        \* close_port() calls on each virtual port
  callback,       \* midi_in has a callback registered
  stop_event,     \* the worker stop_event objects that are set, by handle
  rd,             \* per handle, the position of its reader thread
  data,           \* per handle, the reader's local data
  framesRead,     \* history: the 3-byte results read(3) returned, in order
  sent,           \* history: the messages passed to midi_out.send_message
  out_pc,         \* the position of the rtmidi dispatch thread
  out_buf,        \* process_midi_out's buf, while the callback handles it
  out_ser,        \* the handle ser.write is under way on, else 0
  out_data,       \* the bytes given to the ser.write under way, else empty
  stops,          \* signals delivered so far
  msgs,           \* messages delivered so far
  discovery,      \* history: "never" (findDevices not called), "empty", "matched"
  openPaths,      \* history: the paths passed to serial.Serial
  openFails,      \* history: serial.Serial calls of the current open_serial that raised
  warnLines,      \* history: lines warn has printed in the current open_serial
  openSleeps      \* history: sleeps of the current open_serial

vars == <<manual_device, eval_match, pc, should_stop, _interrupt, interruptSet,
          device_path, ports, devices, ser, nHandles, closes, midi_in, midi_out,
          vopens, vcloses, callback, stop_event, rd, data, framesRead, sent, out_pc,
          out_buf, out_ser, out_data, stops, msgs, discovery, openPaths, openFails,
          warnLines, openSleeps>>

config == <<manual_device, eval_match>>
supLocals == <<device_path, ports, devices, ser>>
handleVars == <<nHandles, closes>>
midiVars == <<midi_in, midi_out, vopens, vcloses>>
readerVars == <<rd, data, framesRead, sent>>
outVars == <<out_pc, out_buf, out_ser, out_data, msgs>>
retryVars == <<openFails, warnLines, openSleeps>>
histVars == <<discovery, openPaths, retryVars>>

\* The state after Serial2Midi.__init__ (lines 78-90), before the first
\* statement of what main runs next.
Fresh(start) ==
  /\ pc = start
  /\ should_stop = FALSE
  /\ _interrupt = 0
  /\ interruptSet = {}
  /\ device_path = None
  /\ ports = <<>>
  /\ devices = <<>>
  /\ ser = 0
  /\ nHandles = 0
  /\ closes = [h \in Handles |-> 0]
  /\ midi_in = "new"
  /\ midi_out = "new"
  /\ vopens = [in |-> 0, out |-> 0]
  /\ vcloses = [in |-> 0, out |-> 0]
  /\ callback = FALSE
  /\ stop_event = {}
  /\ rd = [h \in Handles |-> "none"]
  /\ data = [h \in Handles |-> <<>>]
  /\ framesRead = <<>>
  /\ sent = <<>>
  /\ out_pc = "idle"
  /\ out_buf = <<>>
  /\ out_ser = 0
  /\ out_data = <<>>
  /\ stops = 0
  /\ msgs = 0
  /\ discovery = "never"
  /\ openPaths = {}
  /\ openFails = 0
  /\ warnLines = 0
  /\ openSleeps = 0

Init ==
  /\ manual_device \in ManualDevices
  /\ eval_match \in RunPreds
  /\ Fresh("start")

\* -------------------------------------------------------------- logging
\* Line 33: the levels that print.
LOG_LEVELS == {"INFO"}

\* logger(level) (lines 35-38) called once, n lines of that level having been
\* printed before: the call prints only when level is in LOG_LEVELS.
logger(level, n) == IF level \in LOG_LEVELS THEN n + 1 ELSE n

\* ---------------------------------------------------- handles and events
IsOpen(h) == h \in 1..nHandles /\ closes[h] = 0

\* Serial2Midi.stop (lines 170-173), as the signal handler runs it: the flag,
\* then the wake of the Event self._interrupt belongs to, if any.
stop ==
  /\ should_stop' = TRUE
  /\ interruptSet' = IF _interrupt # 0 THEN interruptSet \cup {_interrupt}
                     ELSE interruptSet

\* Variant of process_serial_in that tests `if buf:` instead of the length:
\* every non-empty result is sent.
process_serial_in_AnyLength(buf, out) ==
  IF Len(buf) >= 1 THEN Append(out, buf) ELSE out

\* process_serial_in (lines 176-179): what send_message has been given after
\* the callback ran on buf.
process_serial_in(buf, out) == IF Len(buf) = 3 THEN Append(out, buf) ELSE out

\* ---------------------------------------------------------- supervisor
\* Variant of SupStart without line 107: only the input port is opened.
SupStart_InOnly ==
  /\ pc = "start"
  /\ midi_in' = "open"
  /\ vopens' = [vopens EXCEPT !.in = @ + 1]
  /\ pc' = "loop"
  /\ UNCHANGED <<config, should_stop, _interrupt, interruptSet, supLocals,
                 handleVars, midi_out, vcloses, callback, stop_event, readerVars,
                 outVars, stops, histVars>>

\* Lines 94-109: both virtual ports are opened.
SupStart ==
  /\ pc = "start"
  /\ midi_in' = "open"
  /\ midi_out' = "open"
  /\ vopens' = [in |-> vopens.in + 1, out |-> vopens.out + 1]
  /\ pc' = "loop"
  /\ UNCHANGED <<config, should_stop, _interrupt, interruptSet, supLocals,
                 handleVars, vcloses, callback, stop_event, readerVars, outVars,
                 stops, histVars>>

\* Variant of SupLoop in which a --match expression takes precedence over the
\* manual path: discovery runs whenever eval_match is given.
SupLoop_MatchFirst ==
  /\ pc = "loop"
  /\ IF should_stop
     THEN pc' = "close_in" /\ UNCHANGED device_path
     ELSE /\ device_path' = manual_device
          /\ pc' = IF Truthy(manual_device) /\ eval_match = NoMatch
                   THEN "open_loop" ELSE "discover"
  /\ UNCHANGED <<config, should_stop, _interrupt, interruptSet, ports, devices,
                 ser, handleVars, midiVars, callback, stop_event, readerVars,
                 outVars, stops, histVars>>

\* Lines 111-114: the outer loop's test, then the manual path if there is one.
SupLoop ==
  /\ pc = "loop"
  /\ IF should_stop
     THEN pc' = "close_in" /\ UNCHANGED device_path
     ELSE /\ device_path' = manual_device
          /\ pc' = IF Truthy(manual_device) THEN "open_loop" ELSE "discover"
  /\ UNCHANGED <<config, should_stop, _interrupt, interruptSet, ports, devices,
                 ser, handleVars, midiVars, callback, stop_event, readerVars,
                 outVars, stops, histVars>>

\* Line 115: one pass of findDevices, a fresh comports() each time.
SupDiscover ==
  /\ pc = "discover"
  /\ \E ps \in PortLists : \E ord \in Perms(Len(ps)) :
       /\ ports' = ps
       /\ devices' = findDevices(eval_match, ps, ord)
  /\ discovery' = IF devices' # <<>> THEN "matched"
                  ELSE IF discovery = "never" THEN "empty" ELSE discovery
  /\ pc' = "pick"
  /\ UNCHANGED <<config, should_stop, _interrupt, interruptSet, device_path, ser,
                 handleVars, midiVars, callback, stop_event, readerVars, outVars,
                 stops, openPaths, retryVars>>

\* Lines 116-120: no device, sleep and start over; else take the first.
\* ports and devices are not read again before line 115 assigns them anew:
\* they are cleared here.
SupPick ==
  /\ pc = "pick"
  /\ IF devices = <<>>
     THEN pc' = "sleep_nodev" /\ UNCHANGED device_path
     ELSE pc' = "open_loop" /\ device_path' = devices[1].device_path
  /\ ports' = <<>>
  /\ devices' = <<>>
  /\ UNCHANGED <<config, should_stop, _interrupt, interruptSet, ser, handleVars,
                 midiVars, callback, stop_event, readerVars, outVars, stops,
                 histVars>>

\* Variant of SupSleepNoDev with `break` in place of `continue`: the outer
\* loop is left after the first empty pass.
SupSleepNoDev_Break ==
  /\ pc = "sleep_nodev"
  /\ pc' = "close_in"
  /\ UNCHANGED <<config, should_stop, _interrupt, interruptSet, supLocals,
                 handleVars, midiVars, callback, stop_event, readerVars, outVars,
                 stops, histVars>>

\* Lines 118-119: time.sleep(sleep_interval); continue.
SupSleepNoDev ==
  /\ pc = "sleep_nodev"
  /\ pc' = "loop"
  /\ UNCHANGED <<config, should_stop, _interrupt, interruptSet, supLocals,
                 handleVars, midiVars, callback, stop_event, readerVars, outVars,
                 stops, histVars>>

\* Line 125 (open_serial's loop test); on stop, lines 136 and 138-140:
\* ser = None; continue. The counts of a call of open_serial start at 0 and
\* are put back to 0 when the call returns.
SupOpenLoop ==
  /\ pc = "open_loop"
  /\ IF should_stop
     THEN /\ pc' = "loop"
          /\ ser' = 0
          /\ openFails' = 0 /\ warnLines' = 0 /\ openSleeps' = 0
     ELSE pc' = "open_try" /\ UNCHANGED <<ser, retryVars>>
  /\ UNCHANGED <<config, should_stop, _interrupt, interruptSet, device_path,
                 ports, devices, handleVars, midiVars, callback, stop_event,
                 readerVars, outVars, stops, discovery, openPaths>>

\* Lines 127-132 and 138: serial.Serial(device_path, ...) returns a handle.
SupOpenOk ==
  /\ pc = "open_try"
  /\ nHandles < MaxConn
  /\ openPaths' = openPaths \cup {device_path}
  /\ nHandles' = nHandles + 1
  /\ ser' = nHandles + 1
  /\ pc' = "arm"
  /\ openFails' = 0 /\ warnLines' = 0 /\ openSleeps' = 0
  /\ UNCHANGED <<config, should_stop, _interrupt, interruptSet, device_path,
                 ports, devices, closes, midiVars, callback, stop_event,
                 readerVars, outVars, stops, discovery>>

\* Lines 127-134: serial.Serial raises SerialException; warn.
SupOpenFail ==
  /\ pc = "open_try"
  /\ openFails < MaxFails
  /\ openPaths' = openPaths \cup {device_path}
  /\ openFails' = openFails + 1
  /\ warnLines' = logger("WARN", warnLines)
  /\ pc' = "open_sleep"
  /\ UNCHANGED <<config, should_stop, _interrupt, interruptSet, supLocals,
                 handleVars, midiVars, callback, stop_event, readerVars, outVars,
                 stops, discovery, openSleeps>>

\* Line 135: time.sleep(sleep_interval), back to the loop test.
SupOpenSleep ==
  /\ pc = "open_sleep"
  /\ openSleeps' = openSleeps + 1
  /\ pc' = "open_loop"
  /\ UNCHANGED <<config, should_stop, _interrupt, interruptSet, supLocals,
                 handleVars, midiVars, callback, stop_event, readerVars, outVars,
                 stops, discovery, openPaths, openFails, warnLines>>

\* Lines 142-143: a new, unset Event; self._interrupt is its set. The Event
\* of an iteration is named by the handle of that iteration.
SupArm ==
  /\ pc = "arm"
  /\ _interrupt' = ser
  /\ pc' = "set_cb"
  /\ UNCHANGED <<config, should_stop, interruptSet, supLocals, handleVars,
                 midiVars, callback, stop_event, readerVars, outVars, stops,
                 histVars>>

\* Lines 145-147: midi_in.set_callback(lambda ...: process_midi_out(msg[0], ser)).
SupSetCallback ==
  /\ pc = "set_cb"
  /\ callback' = TRUE
  /\ pc' = "start_reader"
  /\ UNCHANGED <<config, should_stop, _interrupt, interruptSet, supLocals,
                 handleVars, midiVars, stop_event, readerVars, outVars, stops,
                 histVars>>

\* Lines 153-157 (serial_set_callback, lines 58-74): the worker thread of
\* this handle is started, its stop_event unset.
SupStartReader ==
  /\ pc = "start_reader"
  /\ rd' = [rd EXCEPT ![ser] = "check"]
  /\ pc' = "wait"
  /\ UNCHANGED <<config, should_stop, _interrupt, interruptSet, supLocals,
                 handleVars, midiVars, callback, stop_event, data, framesRead, sent,
                 outVars, stops, histVars>>

\* Line 159: interrupt.wait() returns once this iteration's Event is set.
\* Variant of SupWait where interrupt.wait() returns without the Event being
\* set (a wait with a timeout).
SupWait_Timeout ==
  /\ pc = "wait"
  /\ pc' = "stop_serial"
  /\ UNCHANGED <<config, should_stop, _interrupt, interruptSet, supLocals,
                 handleVars, midiVars, callback, stop_event, readerVars, outVars,
                 stops, histVars>>

\* Line 159: interrupt.wait() returns once the attempt's Event is set.
SupWait ==
  /\ pc = "wait"
  /\ ser \in interruptSet
  /\ pc' = "stop_serial"
  /\ UNCHANGED <<config, should_stop, _interrupt, interruptSet, supLocals,
                 handleVars, midiVars, callback, stop_event, readerVars, outVars,
                 stops, histVars>>

\* Variant of SupStopSerial without lines 161-162: the worker's stop_event
\* is not set and the handle is not closed.
SupStopSerial_SkipTeardown ==
  /\ pc = "stop_serial"
  /\ pc' = "sleep_closed"
  /\ UNCHANGED <<config, should_stop, _interrupt, interruptSet, supLocals,
                 handleVars, midiVars, callback, stop_event, readerVars, outVars,
                 stops, histVars>>

\* Line 161: stop_serial() sets the worker's stop_event.
SupStopSerial ==
  /\ pc = "stop_serial"
  /\ stop_event' = stop_event \cup {ser}
  /\ pc' = "close_ser"
  /\ UNCHANGED <<config, should_stop, _interrupt, interruptSet, supLocals,
                 handleVars, midiVars, callback, readerVars, outVars, stops,
                 histVars>>

\* Variant of SupCloseSer without the close() call.
SupCloseSer_NoClose ==
  /\ pc = "close_ser"
  /\ pc' = "sleep_closed"
  /\ UNCHANGED <<config, should_stop, _interrupt, interruptSet, supLocals,
                 handleVars, midiVars, callback, stop_event, readerVars, outVars,
                 stops, histVars>>

\* Line 162: ser.close().
SupCloseSer ==
  /\ pc = "close_ser"
  /\ closes' = [closes EXCEPT ![ser] = @ + 1]
  /\ pc' = "sleep_closed"
  /\ UNCHANGED <<config, should_stop, _interrupt, interruptSet, supLocals,
                 nHandles, midiVars, callback, stop_event, readerVars, outVars,
                 stops, histVars>>

\* Line 163: time.sleep(sleep_interval), back to the outer loop's test.
SupSleepClosed ==
  /\ pc = "sleep_closed"
  /\ pc' = "loop"
  /\ UNCHANGED <<config, should_stop, _interrupt, interruptSet, supLocals,
                 handleVars, midiVars, callback, stop_event, readerVars, outVars,
                 stops, histVars>>

\* Line 165: midi_in.close_port().
SupCloseIn ==
  /\ pc = "close_in"
  /\ midi_in' = "closed"
  /\ vcloses' = [vcloses EXCEPT !.in = @ + 1]
  /\ pc' = "close_out"
  /\ UNCHANGED <<config, should_stop, _interrupt, interruptSet, supLocals,
                 handleVars, midi_out, vopens, callback, stop_event, readerVars, outVars,
                 stops, histVars>>

\* Variant of SupCloseOut with line 165 repeated in place of line 166:
\* midi_in.close_port() a second time.
SupCloseOut_InAgain ==
  /\ pc = "close_out"
  /\ midi_in' = "closed"
  /\ vcloses' = [vcloses EXCEPT !.in = @ + 1]
  /\ pc' = "done"
  /\ UNCHANGED <<config, should_stop, _interrupt, interruptSet, supLocals,
                 handleVars, midi_out, vopens, callback, stop_event, readerVars, outVars,
                 stops, histVars>>

\* Lines 166-167: midi_out.close_port(); run returns.
SupCloseOut ==
  /\ pc = "close_out"
  /\ midi_out' = "closed"
  /\ vcloses' = [vcloses EXCEPT !.out = @ + 1]
  /\ pc' = "done"
  /\ UNCHANGED <<config, should_stop, _interrupt, interruptSet, supLocals,
                 handleVars, midi_in, vopens, callback, stop_event, readerVars, outVars,
                 stops, histVars>>

Supervisor ==
  \/ SupStart \/ SupLoop \/ SupDiscover \/ SupPick \/ SupSleepNoDev
  \/ SupOpenLoop \/ SupOpenOk \/ SupOpenFail \/ SupOpenSleep
  \/ SupArm \/ SupSetCallback \/ SupStartReader \/ SupWait
  \/ SupStopSerial \/ SupCloseSer \/ SupSleepClosed \/ SupCloseIn \/ SupCloseOut

\* -------------------------------------------------------------- signals
\* main, lines 262-263: SIGINT, SIGTERM or SIGHUP runs s2m.stop() in the main
\* thread, between two steps of run, until run has returned.
SignalStop ==
  /\ pc # "done"
  /\ stops < MaxStops
  /\ stops' = stops + 1
  /\ stop
  /\ UNCHANGED <<config, pc, _interrupt, supLocals, handleVars, midiVars,
                 callback, stop_event, readerVars, outVars, histVars>>

\* -------------------------------------------------------- reader thread
\* Lines 62-64: the loop test, then the call of serial_dev.read(3). On a
\* closed port the call raises at once (PortNotOpenError, a SerialException)
\* and the except clause breaks.
RdCheck(h) ==
  /\ rd[h] = "check"
  /\ rd' = [rd EXCEPT ![h] = IF h \in stop_event THEN "exited"
                             ELSE IF ~IsOpen(h) THEN "broken"
                             ELSE "reading"]
  /\ UNCHANGED <<config, pc, should_stop, _interrupt, interruptSet, supLocals,
                 handleVars, midiVars, callback, stop_event, data, framesRead, sent,
                 outVars, stops, histVars>>

\* Line 64: read(3) returns within its timeout: nothing, or up to 3 bytes.
\* Line 65: an empty result goes back to the loop test.
RdReturn(h) ==
  /\ rd[h] = "reading"
  /\ \E r \in ReadResults :
       /\ Len(r) = 3 => Len(framesRead) < MaxFrames
       /\ data' = [data EXCEPT ![h] = r]
       /\ framesRead' = IF Len(r) = 3 THEN Append(framesRead, r) ELSE framesRead
       /\ rd' = [rd EXCEPT ![h] = IF r # <<>> THEN "cb" ELSE "check"]
  /\ UNCHANGED <<config, pc, should_stop, _interrupt, interruptSet, supLocals,
                 handleVars, midiVars, callback, stop_event, sent, outVars,
                 stops, histVars>>

\* Lines 64, 67-68: read raises (the device is gone, or the port is closed
\* under the read); the except clause breaks. on_exception is not called.
RdRaise(h) ==
  /\ rd[h] = "reading"
  /\ rd' = [rd EXCEPT ![h] = "broken"]
  /\ UNCHANGED <<config, pc, should_stop, _interrupt, interruptSet, supLocals,
                 handleVars, midiVars, callback, stop_event, data, framesRead, sent,
                 outVars, stops, histVars>>

\* Line 66: cb(data), which is process_serial_in(data, midi_out). data is
\* not read again before line 64 assigns it anew: it is cleared here.
RdCb(h) ==
  /\ rd[h] = "cb"
  /\ sent' = process_serial_in(data[h], sent)
  /\ data' = [data EXCEPT ![h] = <<>>]
  /\ rd' = [rd EXCEPT ![h] = "check"]
  /\ UNCHANGED <<config, pc, should_stop, _interrupt, interruptSet, supLocals,
                 handleVars, midiVars, callback, stop_event, framesRead,
                 outVars, stops, histVars>>

Reader(h) == RdCheck(h) \/ RdReturn(h) \/ RdRaise(h) \/ RdCb(h)

\* ------------------------------------------------ rtmidi dispatch thread
\* Variant of OutCallback whose log line formats only the bytes buf has: a
\* message of 1 or 2 bytes is written like any other.
OutCallback_NoIndexError ==
  /\ callback
  /\ midi_in = "open"
  /\ out_pc = "idle"
  /\ msgs < MaxMsgs
  /\ msgs' = msgs + 1
  /\ \E m \in Msgs :
       /\ out_pc' = IF m = <<>> THEN "idle"
                    ELSE IF ~IsOpen(ser) THEN "except_write"
                    ELSE "writing"
       /\ out_buf' = m
       /\ out_ser' = IF out_pc' = "writing" THEN ser ELSE 0
       /\ out_data' = IF out_pc' = "writing" THEN m ELSE <<>>
  /\ UNCHANGED <<config, pc, should_stop, _interrupt, interruptSet, supLocals,
                 handleVars, midiVars, callback, stop_event, readerVars, stops,
                 histVars>>

\* Lines 146 and 181-185: a message arrives on the virtual input port and the
\* registered lambda calls process_midi_out(msg[0], ser), ser being run's
\* variable as it is now. An empty buf is skipped; hex(buf[1]) or hex(buf[2])
\* raises IndexError on a shorter buf; ser.write raises at once on None or on
\* a closed port; otherwise ser.write(buf) (line 185) is under way, given
\* the whole of buf.
OutCallback ==
  /\ callback
  /\ midi_in = "open"
  /\ out_pc = "idle"
  /\ msgs < MaxMsgs
  /\ msgs' = msgs + 1
  /\ \E m \in Msgs :
       /\ out_pc' = IF m = <<>> THEN "idle"
                    ELSE IF Len(m) < 3 THEN "except_index"
                    ELSE IF ~IsOpen(ser) THEN "except_write"
                    ELSE "writing"
       /\ out_buf' = m
       /\ out_ser' = IF out_pc' = "writing" THEN ser ELSE 0
       /\ out_data' = IF out_pc' = "writing" THEN m ELSE <<>>
  /\ UNCHANGED <<config, pc, should_stop, _interrupt, interruptSet, supLocals,
                 handleVars, midiVars, callback, stop_event, readerVars, stops,
                 histVars>>

\* Line 185: ser.write(buf) returns.
OutWriteOk ==
  /\ out_pc = "writing"
  /\ out_pc' = "idle"
  /\ out_buf' = <<>>
  /\ out_ser' = 0
  /\ out_data' = <<>>
  /\ UNCHANGED <<config, pc, should_stop, _interrupt, interruptSet, supLocals,
                 handleVars, midiVars, callback, stop_event, readerVars, msgs,
                 stops, histVars>>

\* Line 185: ser.write(buf) raises.
OutWriteFail ==
  /\ out_pc = "writing"
  /\ out_pc' = "except_write"
  /\ out_ser' = 0
  /\ out_data' = <<>>
  /\ UNCHANGED <<config, pc, should_stop, _interrupt, interruptSet, supLocals,
                 handleVars, midiVars, callback, stop_event, readerVars, out_buf,
                 msgs, stops, histVars>>

\* Lines 186-188 and 171: the exception is logged; stop() sets the flag.
OutStopFlag ==
  /\ out_pc \in {"except_index", "except_write"}
  /\ should_stop' = TRUE
  /\ out_pc' = "stop_wake"
  /\ out_buf' = <<>>
  /\ UNCHANGED <<config, pc, _interrupt, interruptSet, supLocals, handleVars,
                 midiVars, callback, stop_event, readerVars, out_ser, out_data,
                 msgs, stops, histVars>>

\* Variant of OutStopWake for a stop() that only sets the flag: the Event is
\* not set.
OutStopWake_FlagOnly ==
  /\ out_pc = "stop_wake"
  /\ out_pc' = "idle"
  /\ UNCHANGED <<config, pc, should_stop, _interrupt, interruptSet, supLocals,
                 handleVars, midiVars, callback, stop_event, readerVars, out_buf,
                 out_ser, out_data, msgs, stops, histVars>>

\* Lines 172-173: stop() wakes the Event self._interrupt belongs to, if any.
OutStopWake ==
  /\ out_pc = "stop_wake"
  /\ interruptSet' = IF _interrupt # 0 THEN interruptSet \cup {_interrupt}
                     ELSE interruptSet
  /\ out_pc' = "idle"
  /\ UNCHANGED <<config, pc, should_stop, _interrupt, supLocals, handleVars,
                 midiVars, callback, stop_event, readerVars, out_buf, out_ser,
                 out_data, msgs, stops, histVars>>

Dispatch == OutCallback \/ OutWriteOk \/ OutWriteFail \/ OutStopFlag \/ OutStopWake

\* ------------------------------------------------------------ run mode
Next ==
  \/ Supervisor
  \/ SignalStop
  \/ \E h \in Handles : Reader(h)
  \/ Dispatch

Spec == Init /\ [][Next]_vars

\* Every thread that can take a step takes one: sleeps end, read(3) returns or
\* raises within its timeout, write returns or raises, the callback runs to
\* its end. Signals and messages arrive or not.
FairSpec ==
  /\ Spec
  /\ WF_vars(Supervisor)
  /\ \A h \in Handles : WF_vars(Reader(h))
  /\ WF_vars(OutWriteOk \/ OutWriteFail \/ OutStopFlag \/ OutStopWake)

\* ----------------------------------------------------------- list mode
\* main, lines 247-249: --list runs listDevices(args.match) and returns.
ListInit ==
  /\ manual_device \in ManualDevices
  /\ eval_match \in ListPreds
  /\ Fresh("list")

\* Line 195: comports().
ListEnumerate ==
  /\ pc = "list"
  /\ ports' \in PortLists
  /\ pc' = "list_find"
  /\ UNCHANGED <<config, should_stop, _interrupt, interruptSet, device_path,
                 devices, ser, handleVars, midiVars, callback, stop_event,
                 readerVars, outVars, stops, histVars>>

\* Lines 206-215 and 219-222: the descriptors findDevices yields, printed.
ListFind ==
  /\ pc = "list_find"
  /\ \E ord \in Perms(Len(ports)) : devices' = findDevices(eval_match, ports, ord)
  /\ discovery' = IF devices' # <<>> THEN "matched" ELSE "empty"
  /\ pc' = "list_done"
  /\ UNCHANGED <<config, should_stop, _interrupt, interruptSet, device_path,
                 ports, ser, handleVars, midiVars, callback, stop_event,
                 readerVars, outVars, stops, openPaths, retryVars>>

ListNext == ListEnumerate \/ ListFind

ListSpec == ListInit /\ [][ListNext]_vars

\* ============================================================== claims
Active == pc = "wait"
Stopped == pc = "done"
Range(q) == {q[k] : k \in 1..Len(q)}

\* The readers that hold a 3-byte result they have not yet handed on.
FramesInFlight == {h \in Handles : rd[h] = "cb" /\ Len(data[h]) = 3}

\* C1: the messages given to the virtual output port are exactly the 3-byte
\* read results, byte for byte and in the order read (all of them but those
\* a reader still holds); a result of another length is never sent, and
\* handling any result neither ends the reader loop nor signals anything.
C1_InboundForwardsExactlyFrames ==
  /\ [](/\ Len(framesRead) >= Cardinality(FramesInFlight)
        /\ sent = SubSeq(framesRead, 1, Len(framesRead) - Cardinality(FramesInFlight)))
  /\ [][\A h \in Handles :
          (rd[h] = "cb" /\ rd'[h] # "cb") =>
             /\ rd'[h] = "check"
             /\ sent' = IF Len(data[h]) = 3 THEN Append(sent, data[h]) ELSE sent
             /\ interruptSet' = interruptSet
             /\ should_stop' = should_stop]_vars

\* C1 witness: two different frames were forwarded in order, a partial result
\* was read after them, and the reader is back handling it.
C1_Witness ==
  /\ Len(sent) = 2
  /\ sent[1] # sent[2]
  /\ sent = framesRead
  /\ \E h \in Handles : rd[h] = "cb" /\ Len(data[h]) \in {1, 2}

\* C2 (as claimed): a reader that ended on a read error while the supervisor
\* waits on that connection, with no stop requested, has signalled the
\* supervisor: the Event the supervisor waits on is set.
C2_ReadErrorSignalsSupervisor ==
  \A h \in Handles :
    (rd[h] = "broken" /\ Active /\ ser = h /\ ~should_stop) => h \in interruptSet

\* C3: a write error in the outbound callback while the supervisor is Active
\* leads to Stopped, with stop invoked, and with every handle opened and both
\* virtual ports closed exactly once.
C3_WriteErrorStopsBridge ==
  (out_pc = "except_write" /\ Active)
    ~> (/\ Stopped
        /\ should_stop
        /\ \A h \in 1..nHandles : closes[h] = 1
        /\ vcloses = [in |-> 1, out |-> 1])

\* C3 witness: the write has just raised in the callback while the
\* supervisor waits.
C3_Witness == out_pc = "except_write" /\ Active /\ ~should_stop

\* C4 (as claimed): once stop has been invoked, whatever the supervisor was
\* doing, the supervisor eventually reaches Stopped.
C4_StopReachesStopped == should_stop ~> Stopped

\* C5: no serial handle is closed more than once, and neither virtual port is.
C5_NoDoubleClose ==
  /\ \A h \in Handles : closes[h] <= 1
  /\ vcloses.in <= 1
  /\ vcloses.out <= 1

\* C5 witness: a run with a signal and a failed read has ended, everything
\* closed once.
C5_Witness ==
  /\ Stopped
  /\ stops >= 1
  /\ \E h \in Handles : rd[h] = "broken" /\ closes[h] = 1
  /\ vcloses = [in |-> 1, out |-> 1]

\* C6 (as claimed): with the stop flag set, the supervisor makes no open
\* attempt and does not enter Active.
C6_NoOpenAfterStop ==
  [][should_stop =>
       /\ ~(pc = "open_try" /\ pc' # "open_try")
       /\ ~(pc # "wait" /\ pc' = "wait")]_vars

\* C7 (as claimed): close() is not called on a handle while a read or a
\* write on that handle is under way.
C7_NoCloseDuringIO ==
  [][\A h \in Handles :
       closes'[h] # closes[h] =>
         /\ rd[h] # "reading"
         /\ ~(out_pc = "writing" /\ out_ser = h)]_vars

\* C8: with a manual device path, findDevices is never called, whatever
\* --match is, and every open attempt is given the manual path.
C8_ManualSkipsDiscovery ==
  Truthy(manual_device) =>
    /\ discovery = "never"
    /\ pc \notin {"discover", "pick", "sleep_nodev"}
    /\ openPaths \subseteq {manual_device}
    /\ pc \in {"open_loop", "open_try", "open_sleep"} => device_path = manual_device

\* C8 witness: a manual path and a --match expression, the manual path opened.
C8_Witness ==
  /\ Truthy(manual_device)
  /\ eval_match # NoMatch
  /\ openPaths = {manual_device}
  /\ Active

\* No manual device, and no discovery pass so far has yielded a device.
NothingFound == ~Truthy(manual_device) /\ discovery # "matched"

\* C9: with no manual device and no discovery pass yielding a device, there
\* is no open attempt and no Active state; an empty pass is followed by the
\* sleep, and the sleep by a new pass unless stop is requested; once stop is
\* requested the supervisor reaches Stopped with both virtual ports closed.
C9_NoDeviceRetriesUntilStopped ==
  /\ [](NothingFound =>
          /\ openPaths = {}
          /\ nHandles = 0
          /\ pc \in {"start", "loop", "discover", "pick", "sleep_nodev",
                     "close_in", "close_out", "done"})
  /\ [][(NothingFound /\ pc = "pick" /\ pc' # "pick") => pc' = "sleep_nodev"]_vars
  /\ (NothingFound /\ pc = "sleep_nodev")
       ~> (pc = "discover" \/ should_stop \/ ~NothingFound)
  /\ (NothingFound /\ should_stop)
       ~> ((Stopped /\ midi_in = "closed" /\ midi_out = "closed") \/ ~NothingFound)

\* C9 witness: after an empty pass and a stop request the run has ended with
\* nothing ever opened.
C9_Witness ==
  /\ ~Truthy(manual_device)
  /\ discovery = "empty"
  /\ should_stop
  /\ Stopped
  /\ nHandles = 0
  /\ midi_in = "closed" /\ midi_out = "closed"

\* The fields a descriptor has.
DescriptorFields ==
  {"device_path", "usb_description", "usb_vid", "usb_pid", "usb_manufacturer"}

\* C10 (as claimed): discovery yields each descriptor for which the predicate
\* evaluates true, once, and no other; one on which the evaluation raises is
\* left out and the others are still yielded; with no predicate all are
\* yielded; a predicate that refers to a field no descriptor has yields none.
C10_DiscoveryYieldsExactlyMatches ==
  pc = "list_done" =>
    LET all == {inspect(ports[k]) : k \in 1..Len(ports)}
    IN  /\ Range(devices) =
             {d \in all : eval_match = NoMatch \/ PyEval(eval_match, d) = "true"}
        /\ Len(devices) = Cardinality(Range(devices))
        /\ eval_match = NoMatch => Range(devices) = all
        /\ (eval_match # NoMatch /\ eval_match.ref.name \notin DescriptorFields)
             => devices = <<>>

InOpenSerial == pc \in {"open_loop", "open_try", "open_sleep"}

\* C11 (as claimed): when serial.Serial returns a handle after n failures,
\* with no stop requested, n warn lines have been printed and n sleeps taken;
\* while open_serial runs the device path stays the same and discovery is not
\* run again; the handle returned is the one the supervisor goes on with.
C11_RetryWarnsAndSleepsPerFailure ==
  [][/\ (pc = "open_try" /\ pc' = "arm" /\ ~should_stop) =>
          /\ warnLines = openFails
          /\ openSleeps = openFails
          /\ ser' = nHandles' /\ closes[ser'] = 0
     /\ (InOpenSerial /\ ~should_stop) =>
          /\ device_path' = device_path
          /\ discovery' = discovery
          /\ pc' \in {"open_loop", "open_try", "open_sleep", "arm"}]_vars

\* The first 3 bytes of a message (all of it when it is shorter).
First3(m) == SubSeq(m, 1, IF Len(m) < 3 THEN Len(m) ELSE 3)

\* C12 (as claimed): each non-empty message delivered to the callback while
\* the handle is open starts one write, of exactly the first 3 bytes of the
\* message; messages are handled one at a time, in the order delivered.
C12_OutboundWritesFirstThreeBytes ==
  [][(msgs' = msgs + 1 /\ IsOpen(ser)) =>
        /\ out_pc = "idle"
        /\ out_buf' # <<>> =>
             /\ out_pc' = "writing"
             /\ out_ser' = ser
             /\ out_data' = First3(out_buf')]_vars

\* C19: a message of 1 or 2 bytes given to the callback raises before any
\* write (no write is started for it) and leads to stop() being run to its
\* end: the flag set and the Event of self._interrupt, if any, set. An empty
\* message is dropped: no write, no flag, no wake.
C19_ShortMessageStopsBridge ==
  /\ [][msgs' = msgs + 1 =>
          /\ Len(out_buf') \in {1, 2} =>
               out_pc' = "except_index" /\ out_data' = <<>> /\ out_ser' = 0
          /\ out_buf' = <<>> =>
               /\ out_pc' = "idle" /\ out_data' = <<>> /\ out_ser' = 0
               /\ should_stop' = should_stop
               /\ interruptSet' = interruptSet]_vars
  /\ [][(out_pc = "except_index" \/ out_pc = "stop_wake") =>
          (out_data' = <<>> /\ out_pc' # "writing")]_vars
  /\ (out_pc = "except_index")
       ~> (/\ out_pc = "idle"
           /\ should_stop
           /\ _interrupt # 0 => _interrupt \in interruptSet)

\* C19 witness: a 2-byte message has raised in the callback, the handle open
\* and no stop requested so far.
C19_Witness ==
  /\ out_pc = "except_index"
  /\ Len(out_buf) = 2
  /\ IsOpen(ser)
  /\ ~should_stop

\* C13 (as claimed): when close() is called on a handle its reader has ended
\* and no callback is registered any more; no write and no read is started on
\* a handle that has been closed.
C13_CloseAfterReaderAndCallbackGone ==
  [][/\ (\A h \in Handles :
           closes'[h] # closes[h] =>
              rd[h] \in {"none", "exited", "broken"} /\ ~callback)
     /\ (msgs' = msgs + 1 /\ Len(out_buf') >= 3) => IsOpen(ser)
     /\ (\A h \in Handles :
           (rd[h] = "check" /\ rd'[h] \in {"reading", "broken"}) => IsOpen(h))]_vars

\* The supervisor is between its first discovery or open attempt and the end
\* of the outer loop: Discovering, Opening, Active or Closing.
InLoop ==
  pc \in {"loop", "discover", "pick", "sleep_nodev", "open_loop", "open_try",
          "open_sleep", "arm", "set_cb", "start_reader", "wait", "stop_serial",
          "close_ser", "sleep_closed"}

\* C14: each virtual port is opened once, before the loop, and never again;
\* while the supervisor is in the loop or a serial handle is open both
\* virtual ports are open; they are closed only after the loop.
C14_VirtualEndpointSpansTheLoop ==
  /\ vopens.in <= 1 /\ vopens.out <= 1
  /\ (InLoop \/ \E h \in Handles : IsOpen(h)) =>
        /\ midi_in = "open" /\ midi_out = "open"
        /\ vopens = [in |-> 1, out |-> 1]
        /\ vcloses = [in |-> 0, out |-> 0]
  /\ pc = "start" => vopens = [in |-> 0, out |-> 0] /\ nHandles = 0 /\ discovery = "never"

\* C14 witness: a handle is open, its reader running, the supervisor waiting.
C14_Witness ==
  /\ Active
  /\ IsOpen(ser)
  /\ rd[ser] = "reading"
  /\ midi_in = "open" /\ midi_out = "open"

\* The handles that are open.
OpenHandles == {h \in Handles : IsOpen(h)}

\* C15: at most one serial handle is open at a time; outside an attempt
\* (before an open begins, and after the loop) no handle is open, so each
\* handle is closed before a later open begins; the reader of handle h runs
\* only on a handle that was opened, and a write in progress is on the
\* current attempt's handle.
C15_OneHandleAtATime ==
  /\ Cardinality(OpenHandles) <= 1
  /\ pc \in {"start", "loop", "discover", "pick", "sleep_nodev", "open_loop",
             "open_try", "open_sleep", "close_in", "close_out", "done"} =>
        OpenHandles = {}
  /\ pc \in {"arm", "set_cb", "start_reader", "wait", "stop_serial", "close_ser"} =>
        OpenHandles = {ser}
  /\ \A h \in Handles : rd[h] # "none" => h \in 1..nHandles /\ h = ser
  /\ out_pc = "writing" => out_ser = ser /\ out_ser \in 1..nHandles

\* C15 witness: a handle was opened and closed and the supervisor is back at
\* the loop test with nothing open.
C15_Witness ==
  /\ pc = "loop"
  /\ nHandles = 1
  /\ closes[1] = 1
  /\ rd[1] = "exited"

\* The reader of handle h has left its loop.
Terminated(h) == rd[h] \in {"exited", "broken"}

\* The reader of the supervisor's current handle has left its loop.
ReaderDone == ser # 0 /\ Terminated(ser)

\* C16: once the supervisor begins to tear a connection down (stop_serial,
\* then close), the reader of that connection leaves its loop; a reader that
\* has left its loop never reads again.
C16_ReaderTerminatesAfterClosing ==
  /\ (pc = "stop_serial") ~> ReaderDone
  /\ [][\A h \in Handles : Terminated(h) => rd'[h] = rd[h]]_vars

\* C16 witness: the handle is closed and its reader, which saw the stop
\* event at its loop test, has exited.
C16_Witness ==
  /\ pc = "sleep_closed"
  /\ closes[ser] = 1
  /\ rd[ser] = "exited"
  /\ framesRead # <<>>

\* The matching descriptors in the order comports() returned the ports.
EnumMatches ==
  LET ds == [k \in 1..Len(ports) |-> inspect(ports[k])]
      Keep(d) == Yielded(eval_match, d)
  IN  SelectSeq(ds, Keep)

\* C17 (as claimed): when discovery found a device, the descriptors it
\* yielded are the matches in enumeration order, and the path chosen for the
\* open is that of the first match in enumeration order.
C17_FirstMatchInEnumerationOrder ==
  [][(pc = "pick" /\ pc' # "pick" /\ devices # <<>>) =>
        /\ devices = EnumMatches
        /\ device_path' = EnumMatches[1].device_path]_vars

\* C18: the wait of the Active state ends only with the stop flag set and
\* the attempt's Event set; the stop flag is never cleared; the supervisor
\* enters the Active state with the first handle the run opens, and no run
\* opens a second one, so it enters Active at most once.
C18_OnlyStopLeavesActive ==
  /\ [][(pc = "wait" /\ pc' # "wait") => (should_stop /\ ser \in interruptSet)]_vars
  /\ [][should_stop => should_stop']_vars
  /\ [][(pc # "wait" /\ pc' = "wait") => (nHandles = 1 /\ closes[1] = 0)]_vars
  /\ [](nHandles <= 1)

\* C18 witness: stop() has woken the wait and the supervisor has left Active.
C18_Witness ==
  /\ pc = "stop_serial"
  /\ should_stop
  /\ ser \in interruptSet
  /\ nHandles = 1

====
